---------------------------- MODULE Spec2Model ----------------------------
(* git-credential-azure-cli: the "get" operation of the credential helper  *)
(* (src/main.go).  Strings are sequences of one-character strings, so that *)
(* case folding, suffix tests, concatenation and formatting are computed   *)
(* character by character, as the Go code computes them.                   *)
EXTENDS Integers, Sequences, FiniteSets, TLC

(***************************************************************************)
(* Bounds                                                                  *)
(***************************************************************************)
\* longest generated host / domain / resource string of the function runs
MaxLen == 3
\* most token requests a run is followed for (the code issues at most two)
MaxRequests == 4
\* most tokens a generated challenge header is made of
MaxTokens == 3

(***************************************************************************)
(* String literals of the source                                           *)
(***************************************************************************)
sHttps        == <<"h","t","t","p","s">>
sFtp          == <<"f","t","p">>
sSchemeSep    == <<":","/","/">>
sSlash        == <<"/">>
sDot          == <<".">>
sProtocolKey  == <<"p","r","o","t","o","c","o","l">>
sHostKey      == <<"h","o","s","t">>
sPathKey      == <<"p","a","t","h">>
sWwwauthKey   == <<"w","w","w","a","u","t","h","[","]">>
sRealmOpen    == <<"r","e","a","l","m","=","\"">>
sDefaultScope == <<".","d","e","f","a","u","l","t">>
sAuthtype     == <<"a","u","t","h","t","y","p","e","=","b","e","a","r","e","r">>
sUsername     == <<"u","s","e","r","n","a","m","e","=","n","u","l","l">>
sPassword     == <<"p","a","s","s","w","o","r","d","=">>
sPasswordExpiry == <<"p","a","s","s","w","o","r","d","_","e","x","p","i","r","y","_","u","t","c","=">>
prefix         == <<"a","z","u","r","e","c","l","i","c","r","e","d","e","n","t","i","a","l","h","e","l","p","e","r",".">>
resourceSuffix == <<".","r","e","s","o","u","r","c","e">>
tenantSuffix   == <<".","t","e","n","a","n","t">>

sVisualStudio == <<"v","i","s","u","a","l","s","t","u","d","i","o",".","c","o","m">>
sDevAzure     == <<"d","e","v",".","a","z","u","r","e",".","c","o","m">>
defaultAllowedDomains == << sVisualStudio, sDevAzure >>
defaultResourceOverrides == << >>

(***************************************************************************)
(* package strings / fmt, as far as the helper uses them                   *)
(***************************************************************************)
UpperLetters == <<"A","B","C","D","E","F","G","H","I","J","K","L","M",
                  "N","O","P","Q","R","S","T","U","V","W","X","Y","Z">>
LowerLetters == <<"a","b","c","d","e","f","g","h","i","j","k","l","m",
                  "n","o","p","q","r","s","t","u","v","w","x","y","z">>
WhiteSpace   == {" ", "\t", "\r"}

ToLowerChar(c) ==
    IF \E i \in 1..26 : UpperLetters[i] = c
    THEN LowerLetters[CHOOSE i \in 1..26 : UpperLetters[i] = c]
    ELSE c

ToLower(s) == [i \in 1..Len(s) |-> ToLowerChar(s[i])]

HasPrefix(s, p) == Len(s) >= Len(p) /\ SubSeq(s, 1, Len(p)) = p

HasSuffix(s, suffix) ==
    Len(s) >= Len(suffix) /\ SubSeq(s, Len(s) - Len(suffix) + 1, Len(s)) = suffix

TrimPrefix(s, p) == IF HasPrefix(s, p) THEN SubSeq(s, Len(p) + 1, Len(s)) ELSE s

TrimSuffix(s, suffix) ==
    IF HasSuffix(s, suffix) THEN SubSeq(s, 1, Len(s) - Len(suffix)) ELSE s

RECURSIVE TrimLeft(_)
TrimLeft(s) ==
    IF s # << >> /\ Head(s) \in WhiteSpace THEN TrimLeft(Tail(s)) ELSE s

RECURSIVE TrimRight(_)
TrimRight(s) ==
    IF s # << >> /\ s[Len(s)] \in WhiteSpace
    THEN TrimRight(SubSeq(s, 1, Len(s) - 1)) ELSE s

TrimSpace(s) == TrimRight(TrimLeft(s))

\* strings.Index for a one-character needle, counted from 1; 0 when absent
Index(s, c) ==
    IF \E i \in 1..Len(s) : s[i] = c
    THEN CHOOSE i \in 1..Len(s) : s[i] = c /\ \A j \in 1..(i - 1) : s[j] # c
    ELSE 0

Digits == <<"0","1","2","3","4","5","6","7","8","9">>

RECURSIVE FormatNat(_)
FormatNat(n) ==
    IF n < 10 THEN << Digits[n + 1] >>
    ELSE FormatNat(n \div 10) \o << Digits[(n % 10) + 1] >>

\* the %d verb of fmt.Printf
FormatInt(n) == IF n < 0 THEN <<"-">> \o FormatNat(0 - n) ELSE FormatNat(n)

\* map[k] = v on a map held as a function
MapPut(m, k, v) == [x \in (DOMAIN m) \cup {k} |-> IF x = k THEN v ELSE m[x]]

MapGet(m, k) == IF k \in DOMAIN m THEN m[k] ELSE << >>

(***************************************************************************)
(* State                                                                   *)
(***************************************************************************)
VARIABLES
    gitDomains,         \* git config: values of azureclicredentialhelper.alloweddomain
    gitEntries,         \* git config: the other entries, in List order, [key, value]
    stdin,              \* the lines of standard input
    verbosity,          \* count of -v flags
    allowedDomains,     \* cached config (main.go:60)
    resourceOverrides,  \* cached config (main.go:61)
    tenantOverrides,    \* cached config (main.go:62)
    protocol, host,     \* data["protocol"], data["host"]
    wwwauth,            \* the wwwauth[] values, in input order
    pc,                 \* where the process is
    tenant,             \* getCredential's tenant
    cred,               \* the broker handle: << >> before it is made
    resource,           \* getCredential's resource
    accessToken, expiryUTC, err,
    requests,           \* token requests sent to the broker, in order
    results,            \* what the broker answered, in order
    stdout, stderr,     \* lines written so far
    exitCode,           \* << >> while running, then the exit status
    events,             \* the steps of the run, in program order
    fn                  \* function runs: the function applied and its result

vars == << gitDomains, gitEntries, stdin, verbosity, allowedDomains,
           resourceOverrides, tenantOverrides, protocol, host, wwwauth, pc,
           tenant, cred, resource, accessToken, expiryUTC, err, requests,
           results, stdout, stderr, exitCode, events, fn >>

(***************************************************************************)
(* The helper's functions                                                  *)
(***************************************************************************)
\* variant: the message is written whatever the verbosity
debugfAlways(level, format) == << "[DEBUG] " \o format >>

debugf(level, format) ==
    IF verbosity >= level THEN << "[DEBUG] " \o format >> ELSE << >>

\* gitCfg.List(prefix): the keys under the prefix, in order
RECURSIVE gitCfgList(_)
gitCfgList(entries) ==
    IF entries = << >> THEN << >>
    ELSE IF HasPrefix(Head(entries).key, prefix)
         THEN << Head(entries).key >> \o gitCfgList(Tail(entries))
         ELSE gitCfgList(Tail(entries))

\* gitCfg.Get(key): the value stored under the key, "" when there is none
gitCfgGet(key) ==
    IF \E i \in 1..Len(gitEntries) : gitEntries[i].key = key
    THEN gitEntries[CHOOSE i \in 1..Len(gitEntries) :
                      /\ gitEntries[i].key = key
                      /\ \A j \in (i + 1)..Len(gitEntries) : gitEntries[j].key # key].value
    ELSE << >>

\* the loop over the configured domains (main.go:86-91)
RECURSIVE appendDomains(_, _)
appendDomains(acc, domains) ==
    IF domains = << >> THEN acc
    ELSE LET d == TrimSpace(Head(domains))
         IN  appendDomains(IF d # << >> THEN Append(acc, d) ELSE acc, Tail(domains))

loadAllowedDomains ==
    IF Len(gitDomains) = 0
    THEN [domains |-> defaultAllowedDomains,
          log |-> debugf(2, "Using default allowed domains: %v")]
    ELSE LET loaded == appendDomains(<< >>, gitDomains)
         IN  [domains |-> IF Len(loaded) = 0 THEN defaultAllowedDomains ELSE loaded,
              log |-> debugf(2, "Loaded allowed domains from config: %v")]

\* the loop over the keys under the prefix (main.go:112-134)
RECURSIVE loadOverrides(_, _)
loadOverrides(keys, acc) ==
    IF keys = << >> THEN acc
    ELSE
      LET key == Head(keys)
          next ==
            IF HasSuffix(key, resourceSuffix)
            THEN LET urlPart == TrimSuffix(TrimPrefix(key, prefix), resourceSuffix)
                 IN  IF urlPart # << >> /\ gitCfgGet(key) # << >>
                     THEN [acc EXCEPT
                             !.resource = MapPut(acc.resource, urlPart, gitCfgGet(key)),
                             !.log = @ \o debugf(2, "Loaded resource override: %s -> %s")]
                     ELSE acc
            ELSE IF HasSuffix(key, tenantSuffix)
            THEN LET urlPart == TrimSuffix(TrimPrefix(key, prefix), tenantSuffix)
                 IN  IF urlPart # << >> /\ gitCfgGet(key) # << >>
                     THEN [acc EXCEPT
                             !.tenant = MapPut(acc.tenant, urlPart, gitCfgGet(key)),
                             !.log = @ \o debugf(2, "Loaded tenant override: %s -> %s")]
                     ELSE acc
            ELSE acc
      IN  loadOverrides(Tail(keys), next)

loadConfig ==
    LET doms == loadAllowedDomains
        over == loadOverrides(gitCfgList(gitEntries),
                              [resource |-> defaultResourceOverrides,
                               tenant |-> << >>, log |-> << >>])
    IN  [allowedDomains    |-> doms.domains,
         resourceOverrides |-> over.resource,
         tenantOverrides   |-> over.tenant,
         log |-> debugf(2, "Loading git configuration") \o doms.log \o over.log]

\* variant: a plain suffix test, without the separating dot
isAllowedHostNoDot(h, domains) ==
    \E i \in 1..Len(domains) :
        \/ ToLower(h) = ToLower(domains[i])
        \/ HasSuffix(ToLower(h), ToLower(domains[i]))

isAllowedHost(h, domains) ==
    \E i \in 1..Len(domains) :
        \/ ToLower(h) = ToLower(domains[i])
        \/ HasSuffix(ToLower(h), sDot \o ToLower(domains[i]))

\* variant: the bare-host entry is looked up first
getResourceForHostHostFirst(p, h) ==
    LET url == p \o sSchemeSep \o h
    IN  IF h \in DOMAIN resourceOverrides THEN resourceOverrides[h]
        ELSE IF url \in DOMAIN resourceOverrides THEN resourceOverrides[url]
        ELSE url \o sSlash

\* variant: the default lacks the trailing "/"
getResourceForHostNoSlash(p, h) ==
    LET url == p \o sSchemeSep \o h
    IN  IF url \in DOMAIN resourceOverrides THEN resourceOverrides[url]
        ELSE IF h \in DOMAIN resourceOverrides THEN resourceOverrides[h]
        ELSE url

getResourceForHost(p, h) ==
    LET url == p \o sSchemeSep \o h
    IN  IF url \in DOMAIN resourceOverrides THEN resourceOverrides[url]
        ELSE IF h \in DOMAIN resourceOverrides THEN resourceOverrides[h]
        ELSE url \o sSlash

getTenantForHost(p, h) ==
    LET url == p \o sSchemeSep \o h
    IN  IF url \in DOMAIN tenantOverrides THEN tenantOverrides[url]
        ELSE IF h \in DOMAIN tenantOverrides THEN tenantOverrides[h]
        ELSE << >>

\* the scanner loop of parseInput (main.go:179-195)
RECURSIVE parseLines(_, _)
parseLines(lines, acc) ==
    IF lines = << >> THEN acc
    ELSE
      LET line == TrimSpace(Head(lines))
          idx  == Index(line, "=")
          key   == SubSeq(line, 1, idx - 1)
          value == SubSeq(line, idx + 1, Len(line))
      IN  IF line = << >> THEN acc
          ELSE IF idx # 0
          THEN parseLines(Tail(lines),
                 IF key = sWwwauthKey
                 THEN [acc EXCEPT !.wwwauth = Append(@, value),
                                  !.log = @ \o debugf(3, "Parsed input: %s=%s")]
                 ELSE [acc EXCEPT !.data = MapPut(@, key, value),
                                  !.log = @ \o debugf(3, "Parsed input: %s=%s")])
          ELSE parseLines(Tail(lines), acc)

parseInput == parseLines(stdin, [data |-> << >>, wwwauth |-> << >>, log |-> << >>])

\* the index after the first match of realm="([^"]+)" starting at i, 0 if none starts there
closingQuote(entry, i) ==
    LET first == i + Len(sRealmOpen)
        quotes == {q \in first..Len(entry) : entry[q] = "\""}
    IN  IF /\ i + Len(sRealmOpen) - 1 <= Len(entry)
           /\ SubSeq(entry, i, i + Len(sRealmOpen) - 1) = sRealmOpen
           /\ quotes # {}
           /\ first \notin quotes
        THEN CHOOSE q \in quotes : \A r \in quotes : q <= r
        ELSE 0

\* re.FindStringSubmatch(entry)[1], << >> standing for no match
FindStringSubmatch(entry) ==
    LET starts == {i \in 1..Len(entry) : closingQuote(entry, i) # 0}
    IN  IF starts = {} THEN << >>
        ELSE LET i == CHOOSE s \in starts : \A r \in starts : s <= r
             IN  SubSeq(entry, i + Len(sRealmOpen), closingQuote(entry, i) - 1)

\* variant: the loop does not stop at the first header that matches
RECURSIVE extractRealmLast(_)
extractRealmLast(wwwauthEntries) ==
    IF wwwauthEntries = << >> THEN << >>
    ELSE IF extractRealmLast(Tail(wwwauthEntries)) # << >>
         THEN extractRealmLast(Tail(wwwauthEntries))
         ELSE FindStringSubmatch(Head(wwwauthEntries))

RECURSIVE extractRealm(_)
extractRealm(wwwauthEntries) ==
    IF wwwauthEntries = << >> THEN << >>
    ELSE IF FindStringSubmatch(Head(wwwauthEntries)) # << >>
         THEN FindStringSubmatch(Head(wwwauthEntries))
         ELSE extractRealm(Tail(wwwauthEntries))

\* variant: the "/" is appended without looking at the end of the input
scopeAlwaysSlash(res) == res \o sSlash \o sDefaultScope

\* getAccessToken's scope (main.go:213-217)
scope(res) ==
    (IF ~HasSuffix(res, sSlash) THEN res \o sSlash ELSE res) \o sDefaultScope

\* variant: the expiry line is written for an expiry of 0 as well
outputCredentialNonNegative(token, expiry) ==
    << sAuthtype, sUsername, sPassword \o token >>
    \o (IF expiry >= 0 THEN << sPasswordExpiry \o FormatInt(expiry) >> ELSE << >>)

outputCredential(token, expiry) ==
    << sAuthtype, sUsername, sPassword \o token >>
    \o (IF expiry > 0 THEN << sPasswordExpiry \o FormatInt(expiry) >> ELSE << >>)

(***************************************************************************)
(* getCredential's decisions                                               *)
(***************************************************************************)
\* getAccessToken(ctx, cred, resource) up to cred.GetToken (main.go:211-223):
\* the resource asked for, the scope sent, the tenant the handle is bound to
tokenRequest(c, res) ==
    [resource |-> res, scope |-> scope(res), tenant |-> c[1].TenantID]

\* variant: the realm attempt goes through a handle without tenant binding
realmRequestUnbound(realm) ==
    [resource |-> realm, scope |-> scope(realm), tenant |-> << >>]

\* the second attempt, getAccessToken(ctx, cred, realm) (main.go:295)
realmRequest(realm) == tokenRequest(cred, realm)

\* variant: the host is not checked
gateProtocolOnly(p, h, domains) ==
    IF p # sHttps THEN "nonHTTPS" ELSE "pass"

\* the two early returns (main.go:253-263)
gate(p, h, domains) ==
    IF p # sHttps THEN "nonHTTPS"
    ELSE IF ~isAllowedHost(h, domains) THEN "notAllowed"
    ELSE "pass"

hasURLOverride(p, h) == (p \o sSchemeSep \o h) \in DOMAIN resourceOverrides

hasHostOverride(h) == h \in DOMAIN resourceOverrides

\* variant: a bare-host override does not stop the fallback
realmFallbackURLOnly(e, p, h) == e # "nil" /\ ~hasURLOverride(p, h)

\* the conditions under which the realm is looked at (main.go:287-291)
realmFallback(e, p, h) ==
    e # "nil" /\ ~hasURLOverride(p, h) /\ ~hasHostOverride(h)

\* variant: an empty token is written out too
emitCredentialAnyToken(e, token, expiry) ==
    IF e = "nil" THEN outputCredential(token, expiry) ELSE << >>

\* what the run writes to standard output before it returns (main.go:300-303)
emitCredential(e, token, expiry) ==
    IF e = "nil" /\ token # << >> THEN outputCredential(token, expiry) ELSE << >>

(***************************************************************************)
(* The environment of a run: git configuration, standard input, broker     *)
(***************************************************************************)
sExample   == <<"e","x","a","m","p","l","e",".","c","o","m">>
sMsAzure   == <<"M","s","A","z","u","r","e",".","V","i","s","u","a","l","S","t","u","d","i","o",".","c","o","m">>
sNotVS     == <<"n","o","t","v","i","s","u","a","l","s","t","u","d","i","o",".","c","o","m">>
sCorp      == <<"c","o","r","p",".","e","x","a","m","p","l","e">>
sApiRes    == <<"a","p","i",":","/","/","r","e","s">>
sApiOther  == <<"a","p","i",":","/","/","o","t","h","e","r">>
sTenant1   == <<"t","e","n","a","n","t","1">>
sTenant2   == <<"t","e","n","a","n","t","2">>
sRealm1    == <<"r","1">>
sRealm2    == <<"r","2","/">>
sQuote     == <<"\"">>
sBearer    == <<"B","e","a","r","e","r"," ">>
sBasic     == <<"B","a","s","i","c">>
sUserName  == <<"u","s","e","r",".","n","a","m","e">>
sHttpsUpper == <<"H","T","T","P","S">>

Line(k, v) == k \o <<"=">> \o v
Challenge(realm) == Line(sWwwauthKey, sBearer \o sRealmOpen \o realm \o sQuote)
Entry(k, v) == [key |-> k, value |-> v]

GitConfigs ==
    { [domains |-> << >>, entries |-> << >>],
      [domains |-> << <<" ">> \o sCorp \o <<" ">>, sDevAzure >>,
       entries |-> << Entry(sUserName, sBasic),
                      Entry(prefix \o sCorp \o resourceSuffix, sApiOther),
                      Entry(prefix \o sHttps \o sSchemeSep \o sCorp \o resourceSuffix, sApiRes),
                      Entry(prefix \o sCorp \o tenantSuffix, sTenant1) >>],
      [domains |-> << << >>, <<" ", "\t">> >>,
       entries |-> << Entry(prefix \o sHttps \o sSchemeSep \o sDevAzure \o tenantSuffix, sTenant2),
                      Entry(prefix \o sDevAzure \o tenantSuffix, sTenant1),
                      Entry(prefix \o resourceSuffix, sApiRes),
                      Entry(prefix \o sVisualStudio \o resourceSuffix, << >>) >>],
      [domains |-> << <<"D","e","v",".","A","z","u","r","e",".","c","o","m">> >>,
       entries |-> << Entry(prefix \o sDevAzure \o resourceSuffix, sApiRes) >>] }

Inputs ==
    { << Line(sProtocolKey, sHttps), Line(sHostKey, sDevAzure), << >> >>,
      << Line(sProtocolKey, sHttps), Line(sHostKey, sDevAzure),
         Line(sWwwauthKey, sBasic), Challenge(sRealm1), << >> >>,
      << Line(sProtocolKey, sFtp), Line(sHostKey, sDevAzure), Challenge(sRealm1) >>,
      << Line(sProtocolKey, sHttpsUpper), Line(sHostKey, sDevAzure), Challenge(sRealm1) >>,
      << Line(sProtocolKey, sHttps), Line(sHostKey, sExample), Challenge(sRealm1) >>,
      << Line(sProtocolKey, sHttps), Line(sHostKey, sCorp),
         Challenge(sRealm1), Challenge(sRealm2) >>,
      << Line(sProtocolKey, sHttps), Line(sHostKey, sMsAzure),
         Challenge(<< >>), Line(sPathKey, sBasic) >>,
      << sBasic, <<" ">> \o Line(sProtocolKey, sHttps) \o <<" ">>, << >>,
         Line(sHostKey, sDevAzure) >>,
      << Line(sProtocolKey, sHttps), Line(sHostKey, sNotVS), Challenge(sRealm1) >>,
      << Line(sHostKey, sExample), Line(sProtocolKey, sHttps),
         Line(sHostKey, sVisualStudio), Challenge(<< >>), Challenge(sRealm2) >> }

Verbosities == 0..3

sTokenA == <<"t","o","k","A">>
sTokenB == <<"t","o","k","B">>

\* what cred.GetToken can answer without an error: a token and its expiry
TokenAnswers ==
    { [token |-> tk, expiry |-> e] :
        tk \in { << >>, sTokenA, sTokenB }, e \in { 0 - 62135596, 0, 7, 1700000000 } }

Final == { "done", "exit" }

msgFailedToCreate == "Failed to create Azure CLI credential: %v"

(***************************************************************************)
(* A run of "get"                                                          *)
(***************************************************************************)
Init ==
    /\ \E g \in GitConfigs : gitDomains = g.domains /\ gitEntries = g.entries
    /\ stdin \in Inputs
    /\ verbosity \in Verbosities
    /\ allowedDomains = << >>
    /\ resourceOverrides = << >>
    /\ tenantOverrides = << >>
    /\ protocol = << >> /\ host = << >> /\ wwwauth = << >>
    /\ pc = "start"
    /\ tenant = << >>
    /\ cred = << >>
    /\ resource = << >>
    /\ accessToken = << >> /\ expiryUTC = 0 /\ err = "nil"
    /\ requests = << >> /\ results = << >>
    /\ stdout = << >> /\ stderr = << >>
    /\ exitCode = << >>
    /\ events = << >>
    /\ fn = [name |-> "none"]

\* getCredential up to its first call of the broker (main.go:242-275)
getCredential ==
    /\ pc = "start"
    /\ UNCHANGED << gitDomains, gitEntries, stdin, verbosity, cred, resource,
                    accessToken, expiryUTC, err, requests, results, stdout, fn >>
    /\ LET cfg == loadConfig
           in  == parseInput
           p   == MapGet(in.data, sProtocolKey)
           h   == MapGet(in.data, sHostKey)
           g   == gate(p, h, cfg.allowedDomains)
           log == cfg.log \o in.log \o debugf(1, "Handling get request for %s://%s")
       IN  /\ allowedDomains' = cfg.allowedDomains
           /\ resourceOverrides' = cfg.resourceOverrides
           /\ tenantOverrides' = cfg.tenantOverrides
           /\ protocol' = p /\ host' = h /\ wwwauth' = in.wwwauth
           /\ IF g = "nonHTTPS"
              THEN /\ stderr' = stderr \o log \o debugf(1, "Skipping non-HTTPS protocol: %s")
                   /\ events' = events \o << "protocol check" >>
                   /\ pc' = "done" /\ exitCode' = << 0 >>
                   /\ tenant' = tenant
              ELSE IF g = "notAllowed"
              THEN /\ stderr' = stderr \o log \o debugf(1, "Host not in allowed domains: %s")
                   /\ events' = events \o << "protocol check", "host check" >>
                   /\ pc' = "done" /\ exitCode' = << 0 >>
                   /\ tenant' = tenant
              ELSE /\ tenant' = getTenantForHost(p, h)'
                   /\ stderr' = stderr \o log \o
                        (IF tenant' # << >> THEN debugf(1, "Using tenant override: %s")
                         ELSE << >>)
                   /\ events' = events \o << "protocol check", "host check",
                                             "getTenantForHost",
                                             "NewAzureCLICredential" >>
                   /\ pc' = "NewAzureCLICredential" /\ exitCode' = exitCode

\* azidentity.NewAzureCLICredential failed (main.go:276-279)
NewCredentialFails ==
    /\ pc = "NewAzureCLICredential"
    /\ stderr' = stderr \o debugf(1, msgFailedToCreate)
    /\ pc' = "exit" /\ exitCode' = << 1 >>
    /\ UNCHANGED << gitDomains, gitEntries, stdin, verbosity, allowedDomains,
                    resourceOverrides, tenantOverrides, protocol, host, wwwauth,
                    tenant, cred, resource, accessToken, expiryUTC, err,
                    requests, results, stdout, events, fn >>

\* the handle was made; the primary token request is sent (main.go:275-284, 211-223)
NewCredentialReturns ==
    /\ pc = "NewAzureCLICredential"
    /\ cred' = << [TenantID |-> tenant] >>
    /\ resource' = getResourceForHost(protocol, host)
    /\ stderr' = stderr \o debugf(1, "Using resource: %s")
                        \o debugf(2, "Requesting token for scope: %s")
    /\ requests' = Append(requests, tokenRequest(cred', resource'))
    /\ events' = Append(events, "GetToken")
    /\ pc' = "primary"
    /\ UNCHANGED << gitDomains, gitEntries, stdin, verbosity, allowedDomains,
                    resourceOverrides, tenantOverrides, protocol, host, wwwauth,
                    tenant, accessToken, expiryUTC, err, results, stdout,
                    exitCode, fn >>

\* the primary request returned a token (main.go:229-230, 287, 300-304)
PrimaryReturnsToken ==
    /\ pc = "primary"
    /\ \E a \in TokenAnswers :
        /\ accessToken' = a.token /\ expiryUTC' = a.expiry /\ err' = "nil"
        /\ results' = Append(results, [err |-> "nil", token |-> a.token, expiry |-> a.expiry])
    /\ stderr' = stderr \o debugf(2, "Token acquired, expires at: %v")
                        \o (IF accessToken' # << >>
                            THEN debugf(1, "Successfully obtained credential") ELSE << >>)
    /\ stdout' = stdout \o emitCredential(err', accessToken', expiryUTC')
    /\ events' = events \o << "GetToken returned" >>
                        \o (IF emitCredential(err', accessToken', expiryUTC') # << >>
                            THEN << "outputCredential" >> ELSE << >>)
    /\ pc' = "done" /\ exitCode' = << 0 >>
    /\ UNCHANGED << gitDomains, gitEntries, stdin, verbosity, allowedDomains,
                    resourceOverrides, tenantOverrides, protocol, host, wwwauth,
                    tenant, cred, resource, requests, fn >>

\* the primary request failed (main.go:224-227, 287-304)
PrimaryFails ==
    /\ pc = "primary"
    /\ results' = Append(results, [err |-> "error", token |-> << >>, expiry |-> 0])
    /\ LET realm == extractRealm(wwwauth)
           log   == stderr \o debugf(1, "Failed to get token: %v")
       IN  IF realmFallback("error", protocol, host) /\ realm # << >>
           THEN /\ stderr' = log \o debugf(1, "Retrying with realm from wwwauth: %s")
                               \o debugf(2, "Requesting token for scope: %s")
                /\ requests' = Append(requests, realmRequest(realm))
                /\ events' = events \o << "GetToken returned", "GetToken" >>
                /\ pc' = "realm" /\ exitCode' = exitCode
                /\ stdout' = stdout
           ELSE /\ stderr' = log
                /\ requests' = requests
                /\ events' = events \o << "GetToken returned" >>
                /\ pc' = "done" /\ exitCode' = << 0 >>
                /\ stdout' = stdout \o emitCredential("error", << >>, 0)
    /\ accessToken' = << >> /\ expiryUTC' = 0 /\ err' = "error"
    /\ UNCHANGED << gitDomains, gitEntries, stdin, verbosity, allowedDomains,
                    resourceOverrides, tenantOverrides, protocol, host, wwwauth,
                    tenant, cred, resource, fn >>

\* the realm request returned a token (main.go:295, 229-230, 300-304)
RealmReturnsToken ==
    /\ pc = "realm"
    /\ \E a \in TokenAnswers :
        /\ accessToken' = a.token /\ expiryUTC' = a.expiry /\ err' = "nil"
        /\ results' = Append(results, [err |-> "nil", token |-> a.token, expiry |-> a.expiry])
    /\ stderr' = stderr \o debugf(2, "Token acquired, expires at: %v")
                        \o (IF accessToken' # << >>
                            THEN debugf(1, "Successfully obtained credential") ELSE << >>)
    /\ stdout' = stdout \o emitCredential(err', accessToken', expiryUTC')
    /\ events' = events \o << "GetToken returned" >>
                        \o (IF emitCredential(err', accessToken', expiryUTC') # << >>
                            THEN << "outputCredential" >> ELSE << >>)
    /\ pc' = "done" /\ exitCode' = << 0 >>
    /\ UNCHANGED << gitDomains, gitEntries, stdin, verbosity, allowedDomains,
                    resourceOverrides, tenantOverrides, protocol, host, wwwauth,
                    tenant, cred, resource, requests, fn >>

\* variant: the run asks again whenever the realm request fails
RealmFailsAndRetries ==
    /\ pc = "realm"
    /\ Len(requests) < MaxRequests
    /\ results' = Append(results, [err |-> "error", token |-> << >>, expiry |-> 0])
    /\ requests' = Append(requests, requests[Len(requests)])
    /\ events' = events \o << "GetToken returned", "GetToken" >>
    /\ stderr' = stderr \o debugf(1, "Failed to get token: %v")
    /\ accessToken' = << >> /\ expiryUTC' = 0 /\ err' = "error"
    /\ UNCHANGED << gitDomains, gitEntries, stdin, verbosity, allowedDomains,
                    resourceOverrides, tenantOverrides, protocol, host, wwwauth,
                    tenant, cred, resource, stdout, pc, exitCode, fn >>

\* the realm request failed (main.go:295, 224-227, 300-304)
RealmFails ==
    /\ pc = "realm"
    /\ results' = Append(results, [err |-> "error", token |-> << >>, expiry |-> 0])
    /\ accessToken' = << >> /\ expiryUTC' = 0 /\ err' = "error"
    /\ stderr' = stderr \o debugf(1, "Failed to get token: %v")
    /\ stdout' = stdout \o emitCredential("error", << >>, 0)
    /\ events' = events \o << "GetToken returned" >>
    /\ pc' = "done" /\ exitCode' = << 0 >>
    /\ UNCHANGED << gitDomains, gitEntries, stdin, verbosity, allowedDomains,
                    resourceOverrides, tenantOverrides, protocol, host, wwwauth,
                    tenant, cred, resource, requests, fn >>

Next ==
    \/ getCredential
    \/ NewCredentialFails
    \/ NewCredentialReturns
    \/ PrimaryReturnsToken
    \/ PrimaryFails
    \/ RealmReturnsToken
    \/ RealmFails

Spec == Init /\ [][Next]_vars

(***************************************************************************)
(* Function runs: one function of the helper applied to drawn arguments    *)
(***************************************************************************)
Alphabet == { "a", "A", ".", "/" }

RECURSIVE StringsUpTo(_)
StringsUpTo(n) ==
    IF n = 0 THEN { << >> }
    ELSE LET shorter == StringsUpTo(n - 1)
         IN  shorter \cup { Append(s, c) : s \in shorter, c \in Alphabet }

Strings == StringsUpTo(MaxLen)

NamedHosts == { sDevAzure, sMsAzure, sNotVS, sVisualStudio, sExample }

DomainLists ==
    { << >>, defaultAllowedDomains }
    \cup { << d >> : d \in Strings }
    \cup { << <<"a">>, d >> : d \in Strings }

sHostA   == <<"a">>
FnKeys   == { sHttps \o sSchemeSep \o sHostA, sHostA, sFtp \o sSchemeSep \o sHostA,
              <<"a", "/">> }
FnValues == { sApiRes, <<"Q", "/">> }
FnTables == UNION { [K -> FnValues] : K \in SUBSET FnKeys }

InitFn ==
    /\ gitDomains = << >> /\ gitEntries = << >> /\ stdin = << >>
    /\ verbosity = 0
    /\ wwwauth = << >>
    /\ pc = "fn"
    /\ tenant = << >>
    /\ cred = << >>
    /\ accessToken = << >> /\ expiryUTC = 0 /\ err = "nil"
    /\ requests = << >> /\ results = << >>
    /\ stdout = << >> /\ stderr = << >>
    /\ exitCode = << >>
    /\ events = << >>
    /\ \/ /\ fn = [name |-> "none", case |-> "match"]
          /\ host \in Strings \cup NamedHosts
          /\ allowedDomains \in DomainLists
          /\ protocol = sHttps /\ resource = << >>
          /\ resourceOverrides = << >> /\ tenantOverrides = << >>
       \/ /\ fn = [name |-> "none", case |-> "resolve"]
          /\ host \in Strings \cup { sDevAzure }
          /\ protocol \in { sHttps, sFtp }
          /\ allowedDomains = defaultAllowedDomains /\ resource = << >>
          /\ \E tb \in FnTables :
                \/ resourceOverrides = tb /\ tenantOverrides = << >>
                \/ resourceOverrides = << >> /\ tenantOverrides = tb
       \/ /\ fn = [name |-> "none", case |-> "scope"]
          /\ resource \in Strings \cup { sApiRes, sHttps \o sSchemeSep \o sDevAzure \o sSlash }
          /\ host = << >> /\ protocol = sHttps
          /\ allowedDomains = defaultAllowedDomains
          /\ resourceOverrides = << >> /\ tenantOverrides = << >>

fnFrame == << gitDomains, gitEntries, stdin, verbosity, allowedDomains,
              resourceOverrides, tenantOverrides, protocol, host, wwwauth,
              tenant, cred, resource, accessToken, expiryUTC, err, requests,
              results, stdout, stderr, exitCode, events >>

FnIsAllowedHost ==
    /\ pc = "fn" /\ fn.case = "match"
    /\ fn' = [name |-> "isAllowedHost", case |-> fn.case,
              out |-> isAllowedHost(host, allowedDomains)]
    /\ pc' = "fn returned"
    /\ UNCHANGED fnFrame

FnGetResourceForHost ==
    /\ pc = "fn" /\ fn.case = "resolve"
    /\ fn' = [name |-> "getResourceForHost", case |-> fn.case,
              out |-> getResourceForHost(protocol, host)]
    /\ pc' = "fn returned"
    /\ UNCHANGED fnFrame

FnGetTenantForHost ==
    /\ pc = "fn" /\ fn.case = "resolve"
    /\ fn' = [name |-> "getTenantForHost", case |-> fn.case,
              out |-> getTenantForHost(protocol, host)]
    /\ pc' = "fn returned"
    /\ UNCHANGED fnFrame

FnScope ==
    /\ pc = "fn" /\ fn.case = "scope"
    /\ fn' = [name |-> "scope", case |-> fn.case, out |-> scope(resource)]
    /\ pc' = "fn returned"
    /\ UNCHANGED fnFrame

NextFn ==
    \/ FnIsAllowedHost
    \/ FnGetResourceForHost
    \/ FnGetTenantForHost
    \/ FnScope

SpecFn == InitFn /\ [][NextFn]_vars

(***************************************************************************)
(* Properties                                                              *)
(***************************************************************************)
BrokerSteps == { "NewAzureCLICredential", "GetToken" }

Count(seq, x) == Cardinality({ i \in 1..Len(seq) : seq[i] = x })

\* C1: the broker is touched (handle constructed, token requested) only in a
\* run whose protocol is exactly "https" and whose host the domain matcher
\* accepted, and both checks come before the first broker step.
C1_GateBeforeBroker ==
    /\ \A i \in 1..Len(events) :
          events[i] \in BrokerSteps =>
             /\ protocol = sHttps
             /\ isAllowedHost(host, allowedDomains)
             /\ \E j \in 1..(i - 1) : events[j] = "protocol check"
             /\ \E k \in 1..(i - 1) : events[k] = "host check"
    /\ (cred # << >> \/ requests # << >> \/ pc = "NewAzureCLICredential") =>
          /\ protocol = sHttps
          /\ isAllowedHost(host, allowedDomains)
          /\ \E i \in 1..Len(events) : events[i] \in BrokerSteps

C1_Witness ==
    /\ requests # << >>
    /\ cred # << >>
    /\ host = sMsAzure

\* C2: a second (realm) token request exists only if the primary attempt
\* failed and the resource override table has neither a protocol://host entry
\* nor a bare-host entry for the request; hence none after a primary success
\* and none when an override was used.
C2_RealmOnlyWithoutOverride ==
    /\ Len(requests) >= 2 =>
          /\ Len(results) >= 1
          /\ results[1].err # "nil"
          /\ (protocol \o sSchemeSep \o host) \notin DOMAIN resourceOverrides
          /\ host \notin DOMAIN resourceOverrides
    /\ (/\ pc \in Final
        /\ Len(results) >= 1
        /\ \/ results[1].err = "nil"
           \/ (protocol \o sSchemeSep \o host) \in DOMAIN resourceOverrides
           \/ host \in DOMAIN resourceOverrides)
       => Len(requests) = 1

C2_Witness ==
    /\ Len(requests) = 2
    /\ results[1].err # "nil"
    /\ resourceOverrides # << >>

IsCredentialBlock(out) ==
    /\ Len(out) \in { 3, 4 }
    /\ out[1] = sAuthtype
    /\ out[2] = sUsername
    /\ HasPrefix(out[3], sPassword)
    /\ Len(out) = 4 => HasPrefix(out[4], sPasswordExpiry)

SomeAttemptGaveToken ==
    \E i \in 1..Len(results) : results[i].err = "nil" /\ results[i].token # << >>

\* C3: standard output is at every moment empty or one complete credential
\* block; at exit a block is there exactly if some attempt (primary or realm)
\* gave a non-empty token, so a non-https protocol, a rejected host and the
\* failure of every attempt leave it empty.
C3_AllOrNothing ==
    /\ stdout = << >> \/ IsCredentialBlock(stdout)
    /\ pc \in Final => ((stdout # << >>) <=> SomeAttemptGaveToken)
    /\ (pc \in Final /\ (protocol # sHttps \/ ~isAllowedHost(host, allowedDomains)))
          => stdout = << >>

C3_Witness ==
    /\ pc = "done"
    /\ Len(results) = 2
    /\ IsCredentialBlock(stdout)

RECURSIVE ParseDecimal(_)
\* the number a string of decimal digits stands for, -1 when it is not one
ParseDecimal(s) ==
    IF s = << >> THEN 0 - 1
    ELSE LET last == s[Len(s)]
             d    == IF \E i \in 1..10 : Digits[i] = last
                     THEN (CHOOSE i \in 1..10 : Digits[i] = last) - 1
                     ELSE 0 - 1
         IN  IF d < 0 THEN 0 - 1
             ELSE IF Len(s) = 1 THEN d
             ELSE LET rest == ParseDecimal(SubSeq(s, 1, Len(s) - 1))
                  IN  IF rest < 0 THEN 0 - 1 ELSE 10 * rest + d

\* C4: an emitted credential for token T with broker-reported expiry E is
\* exactly authtype=bearer, username=null, password=T, and then
\* password_expiry_utc=E as a fourth line exactly if E > 0; nothing follows.
C4_CredentialLines ==
    stdout # << >> =>
        LET r == results[Len(results)]
        IN  /\ r.err = "nil"
            /\ Len(stdout) = (IF r.expiry > 0 THEN 4 ELSE 3)
            /\ stdout[1] = sAuthtype
            /\ stdout[2] = sUsername
            /\ stdout[3] = sPassword \o r.token
            /\ r.expiry > 0 =>
                  /\ HasPrefix(stdout[4], sPasswordExpiry)
                  /\ ParseDecimal(TrimPrefix(stdout[4], sPasswordExpiry)) = r.expiry

C4_Witness ==
    /\ Len(stdout) = 4
    /\ stdout[3] = sPassword \o sTokenA
    /\ expiryUTC = 1700000000

SameLetter(a, b) ==
    \/ a = b
    \/ \E i \in 1..26 : { a, b } = { UpperLetters[i], LowerLetters[i] }

EqualFold(s, u) ==
    /\ Len(s) = Len(u)
    /\ \A i \in 1..Len(s) : SameLetter(s[i], u[i])

EndsWithDotDomain(h, d) ==
    /\ Len(h) >= Len(d) + 1
    /\ h[Len(h) - Len(d)] = "."
    /\ \A i \in 1..Len(d) : SameLetter(h[Len(h) - Len(d) + i], d[i])

FullURL == protocol \o sSchemeSep \o host

\* C6: resource and tenant resolution return the entry keyed protocol://host
\* when there is one, otherwise the entry keyed by the bare host when there is
\* one, otherwise the default (protocol://host/ for the resource, "" for the
\* tenant); with both entries present the full-URL entry wins.
C6_LookupOrder ==
    /\ fn.name = "getResourceForHost" =>
          /\ FullURL \in DOMAIN resourceOverrides => fn.out = resourceOverrides[FullURL]
          /\ (FullURL \notin DOMAIN resourceOverrides /\ host \in DOMAIN resourceOverrides)
                => fn.out = resourceOverrides[host]
          /\ (FullURL \notin DOMAIN resourceOverrides /\ host \notin DOMAIN resourceOverrides)
                => fn.out = protocol \o sSchemeSep \o host \o sSlash
    /\ fn.name = "getTenantForHost" =>
          /\ FullURL \in DOMAIN tenantOverrides => fn.out = tenantOverrides[FullURL]
          /\ (FullURL \notin DOMAIN tenantOverrides /\ host \in DOMAIN tenantOverrides)
                => fn.out = tenantOverrides[host]
          /\ (FullURL \notin DOMAIN tenantOverrides /\ host \notin DOMAIN tenantOverrides)
                => fn.out = << >>

C6_Witness ==
    /\ fn.name = "getResourceForHost"
    /\ FullURL \in DOMAIN resourceOverrides
    /\ host \in DOMAIN resourceOverrides
    /\ resourceOverrides[FullURL] # resourceOverrides[host]
    /\ fn.out = resourceOverrides[FullURL]

EndsWithOneSlash(s) ==
    /\ Len(s) >= 1
    /\ s[Len(s)] = "/"
    /\ Len(s) >= 2 => s[Len(s) - 1] # "/"

NoResourceOverride ==
    FullURL \notin DOMAIN resourceOverrides /\ host \notin DOMAIN resourceOverrides

\* C7 as stated: for every protocol and host without a resource override the
\* default resource ends with exactly one trailing "/".
C7_AlwaysOneTrailingSlash ==
    (fn.name = "getResourceForHost" /\ NoResourceOverride) => EndsWithOneSlash(fn.out)

\* C7 as amended: without a resource override the default resource is
\* protocol://host with one "/" appended; it ends with exactly one trailing "/"
\* whenever the host is non-empty and does not itself end with "/".
C7_OneSlashAppended ==
    (fn.name = "getResourceForHost" /\ NoResourceOverride) =>
        /\ Len(fn.out) = Len(FullURL) + 1
        /\ SubSeq(fn.out, 1, Len(FullURL)) = FullURL
        /\ fn.out[Len(fn.out)] = "/"
        /\ (host # << >> /\ host[Len(host)] # "/") => EndsWithOneSlash(fn.out)

C7_Witness ==
    /\ fn.name = "getResourceForHost"
    /\ NoResourceOverride
    /\ protocol = sHttps /\ host = sDevAzure
    /\ fn.out = sHttps \o sSchemeSep \o sDevAzure \o sSlash

sSlashDefault == sSlash \o sDefaultScope

\* C8 as stated: the scope is the input made to end with a single trailing
\* "/" and then ".default": it ends with "/.default" and has exactly one "/"
\* right before ".default", whether or not the input ended with "/".
C8_AlwaysSingleSlashScope ==
    fn.name = "scope" =>
        /\ HasSuffix(fn.out, sSlashDefault)
        /\ EndsWithOneSlash(TrimSuffix(fn.out, sDefaultScope))

\* C8 as amended: the scope is the input, with a "/" appended only when the
\* input does not already end with "/", followed by ".default"; it always
\* ends with "/.default", and has exactly one "/" right before ".default"
\* unless the input itself ended with two or more "/".
C8_SlashAppendedIfMissing ==
    fn.name = "scope" =>
        LET body == TrimSuffix(fn.out, sDefaultScope)
        IN  /\ HasSuffix(fn.out, sSlashDefault)
            /\ Len(body) = Len(fn.out) - Len(sDefaultScope)
            /\ HasSuffix(resource, sSlash) => body = resource
            /\ ~HasSuffix(resource, sSlash) => body = resource \o sSlash
            /\ ~HasSuffix(resource, <<"/", "/">>) => EndsWithOneSlash(body)

C8_Witness ==
    /\ fn.name = "scope"
    /\ resource = sHttps \o sSchemeSep \o sDevAzure \o sSlash
    /\ fn.out = resource \o sDefaultScope

\* C9: a run makes at most two token requests, the second only after the
\* first has returned, writes at most one credential response, and once it
\* has ended does nothing more.
C9_AtMostTwoSequential ==
    /\ [](/\ Len(requests) <= 2
          /\ Count(events, "GetToken") = Len(requests)
          /\ Count(events, "GetToken returned") = Len(results)
          /\ Len(results) <= Len(requests)
          /\ Len(requests) <= Len(results) + 1
          /\ \A i, j \in 1..Len(events) :
                (i < j /\ events[i] = "GetToken" /\ events[j] = "GetToken")
                   => \E k \in (i + 1)..(j - 1) : events[k] = "GetToken returned"
          /\ Count(events, "outputCredential") <= 1
          /\ pc \in Final => Len(results) = Len(requests))
    /\ [][pc \notin Final]_vars

C9_Witness ==
    /\ pc = "done"
    /\ Len(requests) = 2
    /\ Len(results) = 2
    /\ Count(events, "outputCredential") = 1

HasFailureMessage ==
    \E i \in 1..Len(stderr) : stderr[i] = "[DEBUG] " \o msgFailedToCreate

\* C10 as stated: failing to construct the broker handle ends the process
\* with a non-zero status, a message on the error stream and no standard
\* output, before any token request; every other failure ends the run
\* normally with empty output.
C10_FatalWithMessage ==
    /\ pc = "exit" =>
          /\ exitCode = << 1 >>
          /\ HasFailureMessage
          /\ stdout = << >>
          /\ requests = << >>
    /\ (pc = "done" /\ ~SomeAttemptGaveToken) => (exitCode = << 0 >> /\ stdout = << >>)

\* C10 as amended: failing to construct the broker handle ends the process
\* with a non-zero status and no standard output, before any token request,
\* and with a message on the error stream exactly when the verbosity is at
\* least 1; every other failure ends the run normally with empty output.
C10_FatalMessageIfVerbose ==
    /\ pc = "exit" =>
          /\ exitCode = << 1 >>
          /\ HasFailureMessage <=> verbosity >= 1
          /\ stdout = << >>
          /\ requests = << >>
          /\ cred = << >>
    /\ (pc = "done" /\ ~SomeAttemptGaveToken) => (exitCode = << 0 >> /\ stdout = << >>)
    /\ exitCode = << 1 >> => pc = "exit"

C10_Witness ==
    /\ pc = "exit"
    /\ exitCode = << 1 >>
    /\ verbosity = 0
    /\ stderr = << >>

(***************************************************************************)
(* Runs of "get" over generated challenge headers                          *)
(***************************************************************************)
tRealmY == sRealmOpen \o <<"y">> \o sQuote
tRealmZ == sRealmOpen \o <<"z", "/">> \o sQuote

\* the pieces challenge headers are generated from
HeaderTokens == { sRealmOpen, sQuote, <<"x">>, tRealmY, tRealmZ }

RECURSIVE HeadersUpTo(_)
HeadersUpTo(n) ==
    IF n = 0 THEN { << >> }
    ELSE LET shorter == HeadersUpTo(n - 1)
         IN  shorter \cup { h \o tk : h \in shorter, tk \in HeaderTokens }

Headers == HeadersUpTo(MaxTokens)

SecondHeaders == { sBasic, sRealmOpen \o sQuote, sRealmOpen \o <<"x">> \o sQuote,
                   tRealmY, tRealmZ }

HeaderLists ==
    { << >> }
    \cup { << h >> : h \in Headers }
    \cup { << h, g >> : h \in Headers, g \in SecondHeaders }

\* a request whose challenge headers stand around the host line
HeaderInput(hl) ==
    << Line(sProtocolKey, sHttps) >>
    \o (IF Len(hl) >= 1 THEN << Line(sWwwauthKey, hl[1]) >> ELSE << >>)
    \o << Line(sHostKey, sDevAzure) >>
    \o (IF Len(hl) >= 2 THEN << Line(sWwwauthKey, hl[2]) >> ELSE << >>)

InitRealm ==
    /\ gitDomains = << >> /\ gitEntries = << >>
    /\ \E hl \in HeaderLists : stdin = HeaderInput(hl)
    /\ verbosity = 1
    /\ allowedDomains = << >>
    /\ resourceOverrides = << >>
    /\ tenantOverrides = << >>
    /\ protocol = << >> /\ host = << >> /\ wwwauth = << >>
    /\ pc = "start"
    /\ tenant = << >>
    /\ cred = << >>
    /\ resource = << >>
    /\ accessToken = << >> /\ expiryUTC = 0 /\ err = "nil"
    /\ requests = << >> /\ results = << >>
    /\ stdout = << >> /\ stderr = << >>
    /\ exitCode = << >>
    /\ events = << >>
    /\ fn = [name |-> "none"]

SpecRealm == InitRealm /\ [][Next]_vars

\* the wwwauth[] values of the input lines, in the order of the lines
RECURSIVE RawHeaders(_)
RawHeaders(lines) ==
    IF lines = << >> THEN << >>
    ELSE IF HasPrefix(Head(lines), sWwwauthKey \o <<"=">>)
         THEN << TrimPrefix(Head(lines), sWwwauthKey \o <<"=">>) >> \o RawHeaders(Tail(lines))
         ELSE RawHeaders(Tail(lines))

\* h[i..] begins realm=", then a non-empty value without quotes, then h[j] = "
RealmOccurrence(h, i, j) ==
    /\ i + Len(sRealmOpen) < j
    /\ j <= Len(h)
    /\ \A k \in 1..Len(sRealmOpen) : h[i + k - 1] = sRealmOpen[k]
    /\ \A k \in (i + Len(sRealmOpen))..(j - 1) : h[k] # "\""
    /\ h[j] = "\""

Occurrences(h) ==
    { ij \in (1..Len(h)) \X (1..Len(h)) :
         ij[1] + Len(sRealmOpen) < ij[2] /\ RealmOccurrence(h, ij[1], ij[2]) }

HasRealm(h) == Occurrences(h) # { }

\* the value of the first occurrence in h
FirstRealmOf(h) ==
    LET occ   == Occurrences(h)
        first == CHOOSE ij \in occ : \A other \in occ : ij[1] <= other[1]
    IN  SubSeq(h, first[1] + Len(sRealmOpen), first[2] - 1)

FirstRealm(hs) ==
    IF \E n \in 1..Len(hs) : HasRealm(hs[n])
    THEN FirstRealmOf(hs[CHOOSE n \in 1..Len(hs) :
                            HasRealm(hs[n]) /\ \A m \in 1..(n - 1) : ~HasRealm(hs[m])])
    ELSE << >>

\* C11: the challenge headers reach realm extraction in their input order;
\* the realm tried after a failed primary attempt (no override present) is the
\* value of the first realm="<value>" occurrence of the first header that has
\* one, and when no header has one the realm is empty and no second attempt
\* is made.
C11_FirstRealmOfFirstHeader ==
    /\ pc # "start" => wwwauth = RawHeaders(stdin)
    /\ (/\ Len(results) >= 1
        /\ results[1].err # "nil"
        /\ FullURL \notin DOMAIN resourceOverrides
        /\ host \notin DOMAIN resourceOverrides) =>
          LET first == FirstRealm(RawHeaders(stdin))
          IN  IF first = << >>
              THEN Len(requests) = 1 /\ pc = "done"
              ELSE Len(requests) = 2 /\ requests[2].resource = first

C11_Witness ==
    /\ wwwauth = << sRealmOpen \o sQuote \o tRealmZ, tRealmY >>
    /\ Len(requests) = 2
    /\ requests[2].resource = <<"z", "/">>

\* C12: a realm attempt asks for the extracted realm as the resource, through
\* the handle of the primary attempt: the tenant is resolved once, before the
\* primary attempt, the handle is bound to it (no binding for an empty
\* tenant), neither changes afterwards, and the override tables stay as
\* loaded for the whole run.
C12_RealmAttemptKeepsTenant ==
    /\ [](/\ Count(events, "getTenantForHost") <= 1
          /\ cred # << >> =>
                /\ Count(events, "getTenantForHost") = 1
                /\ tenant = getTenantForHost(protocol, host)
                /\ cred[1].TenantID = tenant
          /\ \A i \in 1..Len(requests) : requests[i].tenant = tenant
          /\ \A i, j \in 1..Len(events) :
                (events[i] = "getTenantForHost" /\ events[j] = "GetToken") => i < j
          /\ Len(requests) = 2 =>
                /\ requests[2].resource = extractRealm(wwwauth)
                /\ requests[2].scope = scope(extractRealm(wwwauth))
                /\ requests[2].tenant = requests[1].tenant
          /\ pc # "start" =>
                /\ resourceOverrides = loadConfig.resourceOverrides
                /\ tenantOverrides = loadConfig.tenantOverrides)
    /\ [][pc # "start" =>
            /\ tenant' = tenant
            /\ resourceOverrides' = resourceOverrides
            /\ tenantOverrides' = tenantOverrides
            /\ cred # << >> => cred' = cred]_vars

C12_Witness ==
    /\ Len(requests) = 2
    /\ tenant = sTenant2
    /\ tenantOverrides # << >>
    /\ requests[1].tenant = sTenant2
    /\ requests[2].tenant = sTenant2
    /\ requests[2].resource = sRealm1

=============================================================================
